---- MODULE Spec2Model ----
(***************************************************************************)
(* GeneticRace: the genetic search of FirstStage.py (operational stage,    *)
(* stage 1) and SecondStage.py (conservative stage, stage 2).              *)
(*                                                                         *)
(* Numbers.  Python floats are modelled by exact rationals <<n, d>> with   *)
(* d > 0.  A treatment coordinate is stored in hundredths (the value times *)
(* 100), so the "/ 100" of _random_solution is visible: a scaled           *)
(* coordinate holds the drawn integer, an unscaled one holds 100 times it. *)
(* Values of the regression equations are integers in thousandths.         *)
(*                                                                         *)
(* Randomness.  The interpreter's generator is a state (rng) that every    *)
(* draw advances; its seed is chosen in Init.  The generator is a linear   *)
(* congruential one, not the Mersenne Twister: each tape is one of the     *)
(* draw sequences the program can see.                                     *)
(***************************************************************************)
EXTENDS Integers, Sequences, FiniteSets, TLC

\* ---------------------------------------------------------------- constants

POPULATION_NUMBER == 32
GA_RUNS == 20
SOLUTION_SIZE == 9
MAX_GENERATIONS == 500

POPULATION_RANGE == 0 .. (POPULATION_NUMBER - 1)

\* ---------------------------------------------------------------- rationals

Abs(n) == IF n < 0 THEN -n ELSE n

RECURSIVE Gcd(_, _)
Gcd(a, b) == IF b = 0 THEN a ELSE Gcd(b, a % b)

\* The reduced fraction n/d with a positive denominator.
RNorm(n, d) ==
    LET g == Gcd(Abs(n), Abs(d))
        s == IF d < 0 THEN -1 ELSE 1
    IN  <<s * (n \div g), s * (d \div g)>>

Min(S) == CHOOSE m \in S : \A n \in S : m <= n

RInt(k) == <<k, 1>>

\* Sum on the common denominator when the denominators agree (not reduced:
\* 7129/7129 stays as it is), on the reduced cross product otherwise.
RAdd(a, b) ==
    IF a[2] = b[2] THEN <<a[1] + b[1], a[2]>>
    ELSE LET g == Gcd(a[2], b[2])
         IN  RNorm(a[1] * (b[2] \div g) + b[1] * (a[2] \div g), (a[2] \div g) * b[2])

RNeg(a) == <<-a[1], a[2]>>

RSub(a, b) == RAdd(a, RNeg(b))

\* Product, cancelling across before multiplying.
RMul(a, b) ==
    LET g1 == Gcd(Abs(a[1]), b[2])
        g2 == Gcd(Abs(b[1]), a[2])
        h1 == IF g1 = 0 THEN 1 ELSE g1
        h2 == IF g2 = 0 THEN 1 ELSE g2
    IN  RNorm((a[1] \div h1) * (b[1] \div h2), (a[2] \div h2) * (b[2] \div h1))

\* 1/a for a # 0.
RInv(a) == IF a[1] < 0 THEN <<-a[2], -a[1]>> ELSE <<a[2], a[1]>>

RDiv(a, b) == RMul(a, RInv(b))

RLess(a, b) == a[1] * b[2] < b[1] * a[2]

RECURSIVE RSum(_)
RSum(s) == IF s = <<>> THEN RInt(0) ELSE RAdd(RSum(SubSeq(s, 1, Len(s) - 1)), s[Len(s)])

RECURSIVE RProd(_)
RProd(s) == IF s = <<>> THEN RInt(1) ELSE RMul(RProd(SubSeq(s, 1, Len(s) - 1)), s[Len(s)])

\* round(x, 15): the float sum loses its summation noise; on exact rationals
\* that is the canonical (reduced) fraction, which is what makes == meaningful.
Round15(a) == RNorm(a[1], a[2])

\* ---------------------------------------------------------------- saati_method

Pow9(r) == r * r * r * r * r * r * r * r * r

\* The ninth root of a positive integer that is a ninth power of 1..9.
Root9(n) == CHOOSE r \in 1 .. 9 : Pow9(r) = n

first_row == [v \in 1 .. 9 |-> RInt(v)]

\* A table whose rows 2..9 are all first_row divided by 2: their weights are
\* equal.
relationship_matrix_halved ==
    [i \in 1 .. 9 |-> IF i = 1 THEN first_row
                      ELSE [v \in 1 .. 9 |-> RDiv(first_row[v], RInt(2))]]

\* Row 1 is first_row; row i (2..9) is first_row divided element-wise by i.
relationship_matrix ==
    [i \in 1 .. 9 |-> IF i = 1 THEN first_row
                      ELSE [v \in 1 .. 9 |-> RDiv(first_row[v], RInt(i))]]

\* gmean(row) is the ninth root of the product of the row; the model keeps
\* the product, i.e. the ninth power of the geometric mean.
gmean9(row) == RProd(row)

\* g / gmean(first_row) for a geometric mean g given by its ninth power.
GmeanRatio(p) ==
    LET q == RDiv(p, gmean9(first_row))
    IN  <<Root9(q[1]), Root9(q[2])>>

\* sum(gmean_list) and g / total, both in units of gmean(first_row).
saati_method ==
    LET gmean_list == [i \in 1 .. Len(relationship_matrix) |->
                          GmeanRatio(gmean9(relationship_matrix[i]))]
        total == RSum(gmean_list)
    IN  [i \in 1 .. Len(gmean_list) |-> RDiv(gmean_list[i], total)]

\* ---------------------------------------------------------------- classification oracle

\* Python's round(): to the nearest integer, a tie to the even one.  v is an
\* integer in units of 1/scale.
PyRound(v, scale) ==
    LET q == v \div scale
        r == v % scale
    IN  IF 2 * r < scale THEN q
        ELSE IF 2 * r > scale THEN q + 1
        ELSE IF q % 2 = 0 THEN q ELSE q + 1

\* "1 if round(eq) == 0 else 2" on an equation value in thousandths.
Classify(v) == IF PyRound(v, 1000) = 0 THEN 1 ELSE 2

\* Positions of the condition features that some equation raises to the power
\* -1: a zero there raises ZeroDivisionError.
ReciprocalFeatures(st, mode) ==
    IF st = 1 THEN {1, 2, 3, 4, 5, 6, 7, 9, 10, 11, 12}
    ELSE IF mode = "observed" THEN 1 .. 9 ELSE {}

OracleRaises(st, mode, x) == \E f \in ReciprocalFeatures(st, mode) : x[f] = 0

\* The fitted equations are frozen numeric data.  Each is represented by its
\* constant term and two of its terms, in thousandths, on integer condition
\* features x and treatment coordinates h in hundredths.
\* FirstStage x301_eq_two .. x309_eq_two (observed mode).
FirstStageEquations(x, h) ==
    << -833 + ((359 * h[7]) \div h[5]) + (3555000 \div (x[1] * h[4])),
       1896 - ((7100 * x[5]) \div h[5]) + ((12500 * x[7]) \div h[4]),
       -10 + ((248 * h[9]) \div (100 * x[10])) + ((123 * x[8] * h[4]) \div 1000),
       1442 - ((67 * x[2] * h[2]) \div 1000) + ((519 * h[6]) \div h[9]),
       -1662 - ((21480 * h[8]) \div (100 * x[3])) + ((1013900 * x[10]) \div h[3]),
       -975 + ((48 * x[8] * h[9]) \div 100) + ((58454 * h[9]) \div h[1]),
       -4401 + ((387 * h[3]) \div h[6]) + ((12219 * h[6]) \div h[3]),
       757 - (64541500 \div (x[3] * h[5])) + ((21826 * h[3]) \div (100 * x[3])),
       1282 + ((27 * h[4] * h[7]) \div 10000) - ((24 * x[8] * h[4]) \div 100) >>

\* SecondStage x501_eq_two .. x509_eq_two (observed mode).
SecondStageEquations(x, h) ==
    << 204 + (91100 \div (x[1] * h[5])) + ((428 * h[5]) \div h[4]),
       -471 + (109500 \div (x[5] * h[6])) - ((3062 * h[3] * h[8]) \div 10000),
       1953 - (24390000 \div (h[7] * h[8])) + (3250000 \div (h[8] * h[9])),
       1067 + ((3594 * h[3]) \div h[9]) - (11940000 \div (h[6] * h[7])),
       91 + (115500 \div (x[8] * h[6])) - (235 * x[4] * x[9]),
       1223 - ((2695 * h[8]) \div (100 * x[9])) + ((1052 * h[8]) \div h[9]),
       2702 - ((10664 * h[3] * h[3]) \div 10000) + ((3380 * h[3] * h[9]) \div 10000),
       492 + ((293 * x[2] * h[8]) \div 100) - ((28 * h[1] * h[8]) \div 10000),
       2250 - ((6104 * h[3]) \div h[5]) + ((3467 * h[3] * h[9]) \div 10000) >>

\* FirstStage calculate_perfect_value: x303_eq_two .. x309_eq_two (ideal mode).
FirstStageIdealEquations(x) ==
    << 370 - (358 * x[11]) + ((583 * x[3]) \div 1000),
       175 + (921 * x[7]) - (83 * x[5]),
       -227 + (513 * x[8]) - (73 * x[5] * x[11]),
       -11 + (1126 \div (x[4] * x[9])) + ((884 * x[8]) \div x[6]),
       2694 + (204 * x[9]) - (307 * x[2]),
       -1144 + (141 * x[9]) + (450 * x[10] * x[10]),
       1674 + ((64756 * x[11]) \div x[3]) - (892920 \div (x[1] * x[2])) >>

\* The criterion vector of one solution.
CriterionOf(st, x, h) ==
    LET eq == IF st = 1 THEN FirstStageEquations(x, h) ELSE SecondStageEquations(x, h)
    IN  [k \in 1 .. 9 |-> Classify(eq[k])]

\* calculate_criterions(x_list, sol_list): one criterion vector per solution.
calculate_criterions(st, x, sol) ==
    [i \in 1 .. Len(sol) |-> CriterionOf(st, x, sol[i])]

\* SecondStage: x509 = round(1.70408 + x302*x307*(-0.238892) + x301**2*0.170947),
\* exact in millionths; the rounded value itself is the ninth entry.
SecondStageX509(x) ==
    PyRound(1704080 - (238892 * x[2] * x[7]) + (170947 * x[1] * x[1]), 1000000)

\* The c_list built inside calculate_perfect_value.
PerfectCriterion(st, x) ==
    IF st = 1
    THEN LET eq == FirstStageIdealEquations(x)
         IN  <<1, 1>> \o [k \in 1 .. 7 |-> Classify(eq[k])]
    ELSE <<1, 1, 1, 1, 1, 1, 1, 1, SecondStageX509(x)>>

\* ---------------------------------------------------------------- fitness

\* round(sum(-c * coeff for c, coeff in zip(c_list, coeff_list)), 15)
SaatiValue(coeff, c_list) ==
    LET n == IF Len(c_list) < Len(coeff) THEN Len(c_list) ELSE Len(coeff)
    IN  Round15(RSum([k \in 1 .. n |-> RMul(RInt(-c_list[k]), coeff[k])]))

calculate_perfect_value(st, x, coeff) == SaatiValue(coeff, PerfectCriterion(st, x))

calculate_saati(coeff, crit) == [i \in 1 .. Len(crit) |-> SaatiValue(coeff, crit[i])]

get_discrepancies(perfect, saati) == [i \in 1 .. Len(saati) |-> RSub(perfect, saati[i])]

\* ---------------------------------------------------------------- random draws

\* One step of the generator: rng is [a, c, x], the next state has
\* x' = (a*x + c) mod 2^15.
RngNext(g) == [g EXCEPT !.x = (g.a * g.x + g.c) % 32768]

\* n steps as one affine map <<A, C>>: x' = (A*x + C) mod 2^15.
RECURSIVE RngJump(_, _, _)
RngJump(a, c, n) ==
    IF n = 0 THEN <<1, 0>>
    ELSE IF n % 2 = 0
    THEN LET h == RngJump(a, c, n \div 2)
         IN  <<(h[1] * h[1]) % 32768, (h[1] * h[2] + h[2]) % 32768>>
    ELSE LET h == RngJump(a, c, n - 1)
         IN  <<(a * h[1]) % 32768, (a * h[2] + c) % 32768>>

\* The generator after n draws.
RngSkip(g, n) ==
    LET f == RngJump(g.a, g.c, n)
    IN  [g EXCEPT !.x = (f[1] * g.x + f[2]) % 32768]

\* The 15 bits of a state rotated right by 4, for the integer draws.
RngBits(g) == (g.x \div 16) + 2048 * (g.x % 16)

\* randint(lo, hi), drawn from the state the generator is left in.
randint(g, lo, hi) == lo + (RngBits(g) % (hi - lo + 1))

\* choices(POPULATION_RANGE, prob_list)[0], drawn from the state the generator
\* is left in: the top five bits, an index of POPULATION_RANGE.  Every index has a non-zero weight, so every
\* index can be drawn; the tape decides which one.
choice(g, prob_list) == (g.x \div 1024) % POPULATION_NUMBER

\* ---------------------------------------------------------------- population manager

\* (lo, hi) of the integer draw of each coordinate, and what the drawn integer
\* is divided by (100 for "/ 100", 1 otherwise).
Ranges(st) ==
    IF st = 1
    THEN << <<1, 10000, 100>>, <<1, 25000, 100>>, <<5, 60, 1>>, <<1, 5, 1>>, <<1, 2, 1>>,
            <<1, 2, 1>>, <<1, 2, 1>>, <<1, 2, 1>>, <<1, 2, 1>> >>
    ELSE << <<1, 4200, 100>>, <<1, 81, 1>>, <<0, 100, 100>>, <<1, 25, 1>>, <<1, 7, 1>>,
            <<1, 4, 1>>, <<1, 3, 1>>, <<1, 2, 1>>, <<1, 2, 1>> >>

\* A drawn integer r of coordinate l as a value in hundredths.
Hundredths(st, l, r) == r * (100 \div Ranges(st)[l][3])

\* _random_solution(): nine draws one after the other from generator state g,
\* coordinate l from draw l.
random_solution(st, g) ==
    [l \in 1 .. SOLUTION_SIZE |->
        Hundredths(st, l, randint(RngSkip(g, l), Ranges(st)[l][1], Ranges(st)[l][2]))]

\* generate_first_population(): POPULATION_NUMBER solutions drawn one after
\* the other.
generate_first_population(st, g) ==
    [i \in 1 .. POPULATION_NUMBER |-> random_solution(st, RngSkip(g, (i - 1) * SOLUTION_SIZE))]

\* A mutation that returns the redrawn slots without slot 0.
mutation_short(st, g, sol) ==
    [i \in 1 .. (POPULATION_NUMBER - 1) |->
        random_solution(st, RngSkip(g, (i - 1) * SOLUTION_SIZE))]

\* A mutation that redraws slot 0 as well: range(POPULATION_NUMBER).
mutation_all(st, g, sol) ==
    [i \in 1 .. POPULATION_NUMBER |->
        random_solution(st, RngSkip(g, (i - 1) * SOLUTION_SIZE))]

\* mutation(sol_list): slots 1 .. POPULATION_NUMBER-1 are redrawn one after
\* the other, slot 0 is kept.
mutation(st, g, sol) ==
    [i \in 1 .. POPULATION_NUMBER |->
        IF i = 1 THEN sol[i]
        ELSE random_solution(st, RngSkip(g, (i - 2) * SOLUTION_SIZE))]

\* Primes below 2^15, for exact arithmetic on integers too large to write out.
Primes15 ==
    << 32749, 32719, 32717, 32713, 32707, 32693, 32687, 32653, 32647,
       32633, 32621, 32611, 32609, 32603, 32587, 32579, 32573, 32569,
       32563, 32561, 32537, 32533, 32531, 32507, 32503, 32497, 32491,
       32479, 32467, 32443, 32441, 32429, 32423, 32413 >>

\* sum(1 / d for d in disc[:k]) as a pair <<numerator, denominator>> modulo p,
\* over the denominator that is the product of the numerators of disc[:k].
RECURSIVE InverseSumMod(_, _, _)
InverseSumMod(disc, k, p) ==
    IF k = 0 THEN <<0, 1>>
    ELSE LET s == InverseSumMod(disc, k - 1, p)
             inv == RInv(disc[k])
         IN  <<((s[1] * (inv[2] % p)) + ((inv[1] % p) * s[2])) % p, (s[2] * (inv[2] % p)) % p>>

\* total == 0 for total = sum(1 / d for d in disc_list), all d non-zero.  The
\* numerator of total over the product of the numerators of disc_list is an
\* integer below the product of the primes, so it is zero exactly when it is
\* zero modulo each of them.
InverseSumIsZero(disc) ==
    /\ \E i \in 1 .. Len(disc) : disc[i][1] < 0
    /\ \E i \in 1 .. Len(disc) : disc[i][1] > 0
    /\ \A r \in 1 .. Len(Primes15) : InverseSumMod(disc, Len(disc), Primes15[r])[1] = 0

\* get_probabilities(disc_list) raises ZeroDivisionError: a discrepancy is
\* zero (1 / i) or the sum of the inverses is zero (i / total).
get_probabilities_raises(disc) ==
    \/ \E i \in 1 .. Len(disc) : disc[i][1] = 0
    \/ InverseSumIsZero(disc)

\* get_probabilities(disc_list): the probabilities inv / total, kept as the
\* list of the inverses; their common divisor total is not written out.
get_probabilities(disc) == [i \in 1 .. Len(disc) |-> RInv(disc[i])]

\* choices(POPULATION_RANGE, prob_list, k=POPULATION_NUMBER): draw i of the
\* call is the i-th step of the generator.
choices(g, prob_list) ==
    [i \in 1 .. POPULATION_NUMBER |-> choice(RngSkip(g, i), prob_list)]

\* A mother selection that takes its first draw, the father's slot or not:
\* the number of draws is 1.
MotherDraws_first(g, prob_list, f) == 1

\* The number of draws the loop of get_mothers makes for a father f, starting
\* from generator state g: one draw, and one more for as long as the draw
\* equals the father.
RECURSIVE MotherDraws(_, _, _)
MotherDraws(g, prob_list, f) ==
    IF choice(RngNext(g), prob_list) # f THEN 1
    ELSE 1 + MotherDraws(RngNext(g), prob_list, f)

\* get_mothers(father_list, prob_list): the list of mothers followed by the
\* state the generator is left in; slot by slot, in order.
RECURSIVE get_mothers_from(_, _, _, _)
get_mothers_from(g, father_list, prob_list, done) ==
    IF Len(done) = POPULATION_NUMBER THEN <<done, g>>
    ELSE LET n == MotherDraws(g, prob_list, father_list[Len(done) + 1])
             g2 == RngSkip(g, n)
         IN  get_mothers_from(g2, father_list, prob_list, Append(done, choice(g2, prob_list)))

get_mothers(g, father_list, prob_list) == get_mothers_from(g, father_list, prob_list, <<>>)

\* A crossover that reads coordinate l of a child from the mirrored coordinate
\* of the parent.
crossover_mirrored(sol, temp_sol, father_list, mother_list) ==
    [n \in 1 .. POPULATION_NUMBER |->
        LET i == n - 1
            j == father_list[n]
            k == mother_list[n]
        IN  [m \in 1 .. SOLUTION_SIZE |->
                LET l == m - 1
                IN  IF l < (i % 8) + 1
                    THEN temp_sol[(IF (i % 16) < 8 THEN j ELSE k) + 1][SOLUTION_SIZE + 1 - m]
                    ELSE temp_sol[(IF (i % 16) < 8 THEN k ELSE j) + 1][SOLUTION_SIZE + 1 - m]]]

\* A crossover whose head is one coordinate shorter: l < i % 8.
crossover_short_head(sol, temp_sol, father_list, mother_list) ==
    [n \in 1 .. POPULATION_NUMBER |->
        LET i == n - 1
            j == father_list[n]
            k == mother_list[n]
        IN  [m \in 1 .. SOLUTION_SIZE |->
                LET l == m - 1
                IN  IF l < i % 8
                    THEN temp_sol[(IF (i % 16) < 8 THEN j ELSE k) + 1][m]
                    ELSE temp_sol[(IF (i % 16) < 8 THEN k ELSE j) + 1][m]]]

\* A crossover without the deep copy: slot after slot is written into the
\* population the parents are read from, so a parent at a lower slot is read
\* after it has been overwritten.
RECURSIVE crossover_in_place_from(_, _, _, _)
crossover_in_place_from(pop, father_list, mother_list, n) ==
    IF n > POPULATION_NUMBER THEN pop
    ELSE LET i == n - 1
             j == father_list[n]
             k == mother_list[n]
             child == [m \in 1 .. SOLUTION_SIZE |->
                          LET l == m - 1
                          IN  IF l < (i % 8) + 1
                              THEN pop[(IF (i % 16) < 8 THEN j ELSE k) + 1][m]
                              ELSE pop[(IF (i % 16) < 8 THEN k ELSE j) + 1][m]]
         IN  crossover_in_place_from([pop EXCEPT ![n] = child], father_list, mother_list, n + 1)

crossover_in_place(sol, temp_sol, father_list, mother_list) ==
    crossover_in_place_from(sol, father_list, mother_list, 1)

\* A crossover whose head runs up to the whole vector: l < (i % 9) + 1.
crossover_whole_head(sol, temp_sol, father_list, mother_list) ==
    [n \in 1 .. POPULATION_NUMBER |->
        LET i == n - 1
            j == father_list[n]
            k == mother_list[n]
        IN  [m \in 1 .. SOLUTION_SIZE |->
                LET l == m - 1
                IN  IF l < (i % 9) + 1
                    THEN temp_sol[(IF (i % 16) < 8 THEN j ELSE k) + 1][m]
                    ELSE temp_sol[(IF (i % 16) < 8 THEN k ELSE j) + 1][m]]]

\* crossover(sol_list, temp_sol_list, father_list, mother_list): slot i
\* (0-based) takes coordinates l < (i % 8) + 1 (0-based) from the first parent
\* and the others from the second, read in temp_sol_list.
crossover(sol, temp_sol, father_list, mother_list) ==
    [n \in 1 .. POPULATION_NUMBER |->
        LET i == n - 1
            j == father_list[n]
            k == mother_list[n]
        IN  [m \in 1 .. SOLUTION_SIZE |->
                LET l == m - 1
                IN  IF l < (i % 8) + 1
                    THEN temp_sol[(IF (i % 16) < 8 THEN j ELSE k) + 1][m]
                    ELSE temp_sol[(IF (i % 16) < 8 THEN k ELSE j) + 1][m]]]

\* ---------------------------------------------------------------- state

VARIABLES
    stage,             \* 1: FirstStage.py, 2: SecondStage.py
    input,             \* the command line: [arg, xList]
    pc,                \* where the program is
    rng,               \* the state of the random generator
    x_list, coeff_list, perfect_value,
    run, generation,
    sol_list, mean_list, criterion_list, saati_list,
    father_list, mother_list, temp_sol_list,
    treatment_list, complication_list,
    stdout, stderr, exit_status,
    exc,               \* the exception in flight
    evaluated_list,    \* history: the population criterion_list was computed from
    evaluations,       \* history: generations evaluated in the current run
    run_log            \* history: one entry per recorded RunResult

vars == <<stage, input, pc, rng, x_list, coeff_list, perfect_value, run, generation,
          sol_list, mean_list, criterion_list, saati_list, father_list, mother_list,
          temp_sol_list, treatment_list, complication_list, stdout, stderr, exit_status,
          exc, evaluated_list, evaluations, run_log>>

\* A length check that is one short.
ExpectedLength_short(st) == IF st = 1 THEN 11 ELSE 8

\* The x_list length main() accepts.
ExpectedLength(st) == IF st = 1 THEN 12 ELSE 9

\* ---------------------------------------------------------------- inputs

NumTapes == 3

\* The generator states a run of main() is started with.  Tapes 2 and 3 are
\* full-period generators.  The others count (a = 1): their index bits stay put
\* for many draws in a row, so that all fathers can be the same slot.
Tape(k) ==
    IF k = 2 THEN [a |-> 25173, c |-> 13849, x |-> 3]
    ELSE IF k = 3 THEN [a |-> 30433, c |-> 17823, x |-> 24420]
    ELSE [a |-> 1, c |-> 17, x |-> 5 * k]

\* The conservative stage is started on the counting tape only.
Tapes(st) == IF st = 1 THEN {Tape(k) : k \in 1 .. NumTapes} ELSE {Tape(1)}

\* Condition vectors given on the command line; the last of each stage has a
\* zero where the oracle takes a reciprocal.
ConditionVectors(st) ==
    IF st = 1
    THEN { <<100, 30, 5, 30, 100, 3, 10, 100, 30, 100, 3, 10>>,
           <<30, 20, 50, 5, 50, 30, 30, 2, 2, 3, 5, 3>>,
           <<100, 30, 5, 0, 100, 3, 10, 100, 30, 100, 3, 10>> }
    ELSE { <<1, 1, 1, 1, 1, 1, 1, 1, 1>>,
           <<1, 2, 1, 1, 1, 1, 3, 1, 1>>,
           <<1, 1, 1, 1, 0, 1, 1, 1, 1>> }

\* What main() can be started with: no --input, a string that is not JSON, an
\* object without xList, an xList of a wrong length, a condition vector.
Inputs(st) ==
    { [arg |-> "absent", xList |-> <<>>],
      [arg |-> "malformed", xList |-> <<>>],
      [arg |-> "no_xList", xList |-> <<>>] }
    \cup { [arg |-> "object", xList |-> x] : x \in ConditionVectors(st) }
    \cup { [arg |-> "object", xList |-> SubSeq(x, 1, Len(x) - 1)] : x \in ConditionVectors(st) }
    \cup { [arg |-> "object", xList |-> x] : x \in ConditionVectors(3 - st) }

Init ==
    /\ stage \in {1, 2}
    /\ input \in Inputs(stage)
    /\ rng \in Tapes(stage)
    /\ pc = "main"
    /\ x_list = <<>>
    /\ coeff_list = <<>>
    /\ perfect_value = RInt(0)
    /\ run = 0
    /\ generation = 0
    /\ sol_list = <<>>
    /\ mean_list = <<>>
    /\ criterion_list = <<>>
    /\ saati_list = <<>>
    /\ father_list = <<>>
    /\ mother_list = <<>>
    /\ temp_sol_list = <<>>
    /\ treatment_list = <<>>
    /\ complication_list = <<>>
    /\ stdout = <<>>
    /\ stderr = <<>>
    /\ exit_status = -1
    /\ exc = "none"
    /\ evaluated_list = <<>>
    /\ evaluations = 0
    /\ run_log = <<>>

\* ---------------------------------------------------------------- main

\* A result object with every treatment and the last run's complications.
ResultObject_all(treatments, complications) ==
    [treatments |-> treatments,
     complications |-> IF complications # <<>> THEN complications[Len(complications)] ELSE <<>>]

\* The object calculate_treatment returns: treatment_list[:5] and
\* complication_list[0] if complication_list else [].
ResultObject(treatments, complications) ==
    [treatments |-> SubSeq(treatments, 1, Min({5, Len(treatments)})),
     complications |-> IF complications # <<>> THEN complications[1] ELSE <<>>]

ga_vars == <<coeff_list, perfect_value, run, generation, sol_list, mean_list,
             criterion_list, saati_list, father_list, mother_list, temp_sol_list,
             treatment_list, complication_list, evaluated_list, evaluations, run_log>>

\* parser.parse_args() without the required --input: usage message, exit 2.
MainUsage ==
    /\ pc = "main"
    /\ input.arg = "absent"
    /\ pc' = "usage"
    /\ exit_status' = 2
    /\ UNCHANGED <<stage, input, rng, x_list, stdout, stderr, exc>>
    /\ UNCHANGED ga_vars

\* json.loads, data["xList"] or the length check raises.
MainReject ==
    /\ pc = "main"
    /\ \/ input.arg = "malformed" /\ exc' = "JSONDecodeError"
       \/ input.arg = "no_xList" /\ exc' = "KeyError"
       \/ /\ input.arg = "object"
          /\ Len(input.xList) # ExpectedLength(stage)
          /\ exc' = "ValueError"
    /\ pc' = "raise"
    /\ UNCHANGED <<stage, input, rng, x_list, stdout, stderr, exit_status>>
    /\ UNCHANGED ga_vars

\* The input passes: calculate_treatment(x_list) is called.
MainAccept ==
    /\ pc = "main"
    /\ input.arg = "object"
    /\ Len(input.xList) = ExpectedLength(stage)
    /\ x_list' = input.xList
    /\ pc' = "setup"
    /\ UNCHANGED <<stage, input, rng, stdout, stderr, exit_status, exc>>
    /\ UNCHANGED ga_vars

\* A handler that prints what the runs have collected and exits with 0.
Except_success ==
    /\ pc = "raise"
    /\ stdout' = Append(stdout, ResultObject(treatment_list, complication_list))
    /\ exit_status' = 0
    /\ pc' = "failed"
    /\ UNCHANGED <<stage, input, rng, x_list, stderr, exc>>
    /\ UNCHANGED ga_vars

\* except Exception as e: the error object on stderr, sys.exit(1).
Except ==
    /\ pc = "raise"
    /\ stderr' = Append(stderr, [error |-> exc])
    /\ exit_status' = 1
    /\ pc' = "failed"
    /\ UNCHANGED <<stage, input, rng, x_list, stdout, exc>>
    /\ UNCHANGED ga_vars

\* ---------------------------------------------------------------- calculate_treatment

io_vars == <<stage, input, x_list, stdout, stderr, exit_status>>

\* coeff_list, perfect_value and the two result lists, before the first run.
Setup ==
    /\ pc = "setup"
    /\ ~OracleRaises(stage, "ideal", x_list)
    /\ coeff_list' = saati_method
    /\ perfect_value' = calculate_perfect_value(stage, x_list, saati_method)
    /\ treatment_list' = <<>>
    /\ complication_list' = <<>>
    /\ run' = 0
    /\ pc' = "run"
    /\ UNCHANGED <<rng, exc, generation, sol_list, mean_list, criterion_list, saati_list,
                   father_list, mother_list, temp_sol_list, evaluated_list, evaluations,
                   run_log>>
    /\ UNCHANGED io_vars

\* calculate_perfect_value divides by a zero condition feature.
SetupRaises ==
    /\ pc = "setup"
    /\ OracleRaises(stage, "ideal", x_list)
    /\ coeff_list' = saati_method
    /\ exc' = "ZeroDivisionError"
    /\ pc' = "raise"
    /\ UNCHANGED <<rng, perfect_value, run, generation, sol_list, mean_list, criterion_list,
                   saati_list, father_list, mother_list, temp_sol_list, treatment_list,
                   complication_list, evaluated_list, evaluations, run_log>>
    /\ UNCHANGED io_vars

\* A run start that keeps the mean_list of the run before.
StartRun_stale_means ==
    /\ pc = "run"
    /\ run < GA_RUNS
    /\ sol_list' = generate_first_population(stage, rng)
    /\ rng' = RngSkip(rng, POPULATION_NUMBER * SOLUTION_SIZE)
    /\ generation' = 0
    /\ evaluations' = 0
    /\ pc' = "eval"
    /\ UNCHANGED <<exc, coeff_list, perfect_value, run, mean_list, criterion_list, saati_list,
                   father_list, mother_list, temp_sol_list, treatment_list,
                   complication_list, evaluated_list, run_log>>
    /\ UNCHANGED io_vars

\* for run in range(GA_RUNS): a new population and an empty mean_list.
StartRun ==
    /\ pc = "run"
    /\ run < GA_RUNS
    /\ sol_list' = generate_first_population(stage, rng)
    /\ rng' = RngSkip(rng, POPULATION_NUMBER * SOLUTION_SIZE)
    /\ mean_list' = <<>>
    /\ generation' = 0
    /\ evaluations' = 0
    /\ pc' = "eval"
    /\ UNCHANGED <<exc, coeff_list, perfect_value, run, criterion_list, saati_list,
                   father_list, mother_list, temp_sol_list, treatment_list,
                   complication_list, evaluated_list, run_log>>
    /\ UNCHANGED io_vars

\* for generation in range(MAX_GENERATIONS): criterion_list and saati_list of
\* the current population.
Evaluate ==
    /\ pc = "eval"
    /\ generation < MAX_GENERATIONS
    /\ ~OracleRaises(stage, "observed", x_list)
    /\ criterion_list' = calculate_criterions(stage, x_list, sol_list)
    /\ saati_list' = calculate_saati(coeff_list, criterion_list')
    /\ evaluated_list' = sol_list
    /\ evaluations' = evaluations + 1
    /\ pc' = "select"
    /\ UNCHANGED <<rng, exc, coeff_list, perfect_value, run, generation, sol_list, mean_list,
                   father_list, mother_list, temp_sol_list, treatment_list,
                   complication_list, run_log>>
    /\ UNCHANGED io_vars

\* calculate_criterions divides by a zero condition feature.
EvaluateRaises ==
    /\ pc = "eval"
    /\ generation < MAX_GENERATIONS
    /\ OracleRaises(stage, "observed", x_list)
    /\ exc' = "ZeroDivisionError"
    /\ pc' = "raise"
    /\ UNCHANGED <<rng>>
    /\ UNCHANGED ga_vars
    /\ UNCHANGED io_vars

\* The slots whose score equals perfect_value.
Optimal == {i \in 1 .. Len(saati_list) : saati_list[i] = perfect_value}

\* A recording that appends the treatment and not the complication.
Record_unpaired(treatment, complication, how) ==
    /\ treatment_list' = Append(treatment_list, treatment)
    /\ complication_list' = complication_list
    /\ run_log' = Append(run_log, [run |-> run, how |-> how, evaluated |-> evaluations,
                                   treatment |-> treatment, complication |-> complication,
                                   population |-> evaluated_list])

\* treatment_list.append / complication_list.append of one RunResult, with its
\* history entry: the run, how it ended, the generations it evaluated, the
\* result and the population criterion_list was computed from.
Record(treatment, complication, how) ==
    /\ treatment_list' = Append(treatment_list, treatment)
    /\ complication_list' = Append(complication_list, complication)
    /\ run_log' = Append(run_log, [run |-> run, how |-> how, evaluated |-> evaluations,
                                   treatment |-> treatment, complication |-> complication,
                                   population |-> evaluated_list])

\* A convergence step that records slot 0 whichever slot has the perfect score.
Converge_first ==
    /\ pc = "select"
    /\ Optimal # {}
    /\ Record(sol_list[1], criterion_list[1], "CONVERGED")
    /\ run' = run + 1
    /\ pc' = "run"
    /\ UNCHANGED <<rng, exc, coeff_list, perfect_value, generation, sol_list, mean_list,
                   criterion_list, saati_list, father_list, mother_list, temp_sol_list,
                   evaluated_list, evaluations>>
    /\ UNCHANGED io_vars

\* The first slot with the perfect score is recorded; both loops are left.
Converge ==
    /\ pc = "select"
    /\ Optimal # {}
    /\ Record(sol_list[Min(Optimal)], criterion_list[Min(Optimal)], "CONVERGED")
    /\ run' = run + 1
    /\ pc' = "run"
    /\ UNCHANGED <<rng, exc, coeff_list, perfect_value, generation, sol_list, mean_list,
                   criterion_list, saati_list, father_list, mother_list, temp_sol_list,
                   evaluated_list, evaluations>>
    /\ UNCHANGED io_vars

disc_list == get_discrepancies(perfect_value, saati_list)

\* sum(disc_list) / len(disc_list)
mean_disc == RDiv(RSum(disc_list), RInt(Len(disc_list)))

\* A stagnation test that already fires on the second recorded mean.
Stagnating_from_second(means) ==
    Len(means) > 1 /\ means[Len(means) - 1] = means[Len(means)]

\* A stagnation test that compares the mean with the one two generations back.
Stagnating_two_back(means) ==
    Len(means) > 2 /\ means[Len(means) - 2] = means[Len(means)]

\* len(mean_list) > 2 and mean_list[-2] == mean_list[-1], on the list with
\* this generation's mean appended.
Stagnating(means) == Len(means) > 2 /\ means[Len(means) - 1] = means[Len(means)]

\* No optimal slot and the mean repeats: the population is mutated.
Mutate ==
    /\ pc = "select"
    /\ Optimal = {}
    /\ mean_list' = Append(mean_list, mean_disc)
    /\ Stagnating(mean_list')
    /\ sol_list' = mutation(stage, rng, sol_list)
    /\ rng' = RngSkip(rng, (POPULATION_NUMBER - 1) * SOLUTION_SIZE)
    /\ generation' = generation + 1
    /\ pc' = "eval"
    /\ UNCHANGED <<exc, coeff_list, perfect_value, run, criterion_list, saati_list,
                   father_list, mother_list, temp_sol_list, treatment_list,
                   complication_list, evaluated_list, evaluations, run_log>>
    /\ UNCHANGED io_vars

\* get_probabilities raises.
SelectRaises ==
    /\ pc = "select"
    /\ Optimal = {}
    /\ mean_list' = Append(mean_list, mean_disc)
    /\ ~Stagnating(mean_list')
    /\ get_probabilities_raises(disc_list) = TRUE
    /\ exc' = "ZeroDivisionError"
    /\ pc' = "raise"
    /\ UNCHANGED <<rng, coeff_list, perfect_value, run, generation, sol_list,
                   criterion_list, saati_list, father_list, mother_list, temp_sol_list,
                   treatment_list, complication_list, evaluated_list, evaluations, run_log>>
    /\ UNCHANGED io_vars

\* A domination step that records the slot and stays in the generation loop.
Dominate_continue ==
    /\ pc = "select"
    /\ Optimal = {}
    /\ mean_list' = Append(mean_list, mean_disc)
    /\ ~Stagnating(mean_list')
    /\ get_probabilities_raises(disc_list) = FALSE
    /\ father_list' = choices(rng, get_probabilities(disc_list))
    /\ rng' = RngSkip(rng, POPULATION_NUMBER)
    /\ Cardinality({father_list'[i] : i \in 1 .. Len(father_list')}) <= 1
    /\ Record(sol_list[father_list'[1] + 1], criterion_list[father_list'[1] + 1], "DOMINATED")
    /\ generation' = generation + 1
    /\ pc' = "eval"
    /\ UNCHANGED <<exc, coeff_list, perfect_value, run, sol_list, criterion_list,
                   saati_list, mother_list, temp_sol_list, evaluated_list, evaluations>>
    /\ UNCHANGED io_vars

\* A domination step that records slot 0 whichever slot the fathers are.
Dominate_slot0 ==
    /\ pc = "select"
    /\ Optimal = {}
    /\ mean_list' = Append(mean_list, mean_disc)
    /\ ~Stagnating(mean_list')
    /\ get_probabilities_raises(disc_list) = FALSE
    /\ father_list' = choices(rng, get_probabilities(disc_list))
    /\ rng' = RngSkip(rng, POPULATION_NUMBER)
    /\ Cardinality({father_list'[i] : i \in 1 .. Len(father_list')}) <= 1
    /\ Record(sol_list[1], criterion_list[1], "DOMINATED")
    /\ run' = run + 1
    /\ pc' = "run"
    /\ UNCHANGED <<exc, coeff_list, perfect_value, generation, sol_list, criterion_list,
                   saati_list, mother_list, temp_sol_list, evaluated_list, evaluations>>
    /\ UNCHANGED io_vars

\* A domination step that, in the conservative stage only, records slot 0.
Dominate_by_stage ==
    /\ pc = "select"
    /\ Optimal = {}
    /\ mean_list' = Append(mean_list, mean_disc)
    /\ ~Stagnating(mean_list')
    /\ get_probabilities_raises(disc_list) = FALSE
    /\ father_list' = choices(rng, get_probabilities(disc_list))
    /\ rng' = RngSkip(rng, POPULATION_NUMBER)
    /\ Cardinality({father_list'[i] : i \in 1 .. Len(father_list')}) <= 1
    /\ LET slot == IF stage = 2 THEN 1 ELSE father_list'[1] + 1
       IN  Record(sol_list[slot], criterion_list[slot], "DOMINATED")
    /\ run' = run + 1
    /\ pc' = "run"
    /\ UNCHANGED <<exc, coeff_list, perfect_value, generation, sol_list, criterion_list,
                   saati_list, mother_list, temp_sol_list, evaluated_list, evaluations>>
    /\ UNCHANGED io_vars

\* All fathers are one slot: it is recorded, both loops are left.
Dominate ==
    /\ pc = "select"
    /\ Optimal = {}
    /\ mean_list' = Append(mean_list, mean_disc)
    /\ ~Stagnating(mean_list')
    /\ get_probabilities_raises(disc_list) = FALSE
    /\ father_list' = choices(rng, get_probabilities(disc_list))
    /\ rng' = RngSkip(rng, POPULATION_NUMBER)
    /\ Cardinality({father_list'[i] : i \in 1 .. Len(father_list')}) <= 1
    /\ Record(sol_list[father_list'[1] + 1], criterion_list[father_list'[1] + 1], "DOMINATED")
    /\ run' = run + 1
    /\ pc' = "run"
    /\ UNCHANGED <<exc, coeff_list, perfect_value, generation, sol_list, criterion_list,
                   saati_list, mother_list, temp_sol_list, evaluated_list, evaluations>>
    /\ UNCHANGED io_vars

\* Fathers, mothers, the deep copy and the crossover; the next generation.
Crossover ==
    /\ pc = "select"
    /\ Optimal = {}
    /\ mean_list' = Append(mean_list, mean_disc)
    /\ ~Stagnating(mean_list')
    /\ LET prob_list == get_probabilities(disc_list)
           g == RngSkip(rng, POPULATION_NUMBER)
       IN  /\ get_probabilities_raises(disc_list) = FALSE
           /\ father_list' = choices(rng, prob_list)
           /\ Cardinality({father_list'[i] : i \in 1 .. Len(father_list')}) > 1
           /\ LET res == get_mothers(g, father_list', prob_list)
              IN  /\ mother_list' = res[1]
                  /\ rng' = res[2]
    /\ temp_sol_list' = sol_list
    /\ sol_list' = crossover(sol_list, temp_sol_list', father_list', mother_list')
    /\ generation' = generation + 1
    /\ pc' = "eval"
    /\ UNCHANGED <<exc, coeff_list, perfect_value, run, criterion_list, saati_list,
                   treatment_list, complication_list, evaluated_list, evaluations, run_log>>
    /\ UNCHANGED io_vars

\* min(range(POPULATION_NUMBER), key=lambda i: disc_list[i]): the first slot
\* with the least discrepancy.
best_idx(disc) ==
    Min({i \in 1 .. POPULATION_NUMBER :
            \A j \in 1 .. POPULATION_NUMBER : ~RLess(disc[j], disc[i])}) - 1

\* The else of the generation loop: the best slot of the last disc_list.
Exhaust ==
    /\ pc = "eval"
    /\ generation = MAX_GENERATIONS
    /\ LET b == best_idx(get_discrepancies(perfect_value, saati_list))
       IN  Record(sol_list[b + 1], criterion_list[b + 1], "EXHAUSTED")
    /\ run' = run + 1
    /\ pc' = "run"
    /\ UNCHANGED <<rng, exc, coeff_list, perfect_value, generation, sol_list, mean_list,
                   criterion_list, saati_list, father_list, mother_list, temp_sol_list,
                   evaluated_list, evaluations>>
    /\ UNCHANGED io_vars

\* The result object, printed by main(); exit status 0.
Return ==
    /\ pc = "run"
    /\ run = GA_RUNS
    /\ stdout' = Append(stdout, ResultObject(treatment_list, complication_list))
    /\ exit_status' = 0
    /\ pc' = "done"
    /\ UNCHANGED <<stage, input, rng, x_list, stderr, exc>>
    /\ UNCHANGED ga_vars

Next ==
    \/ MainUsage
    \/ MainReject
    \/ MainAccept
    \/ Except
    \/ Setup
    \/ SetupRaises
    \/ StartRun
    \/ Evaluate
    \/ EvaluateRaises
    \/ Converge
    \/ Mutate
    \/ SelectRaises
    \/ Dominate
    \/ Crossover
    \/ Exhaust
    \/ Return

Spec == Init /\ [][Next]_vars

\* ---------------------------------------------------------------- properties

\* The condition vector was accepted and calculate_perfect_value has returned.
PerfectValueComputed == coeff_list # <<>> /\ ~OracleRaises(stage, "ideal", x_list)

\* Equality of the rationals a and b as numbers.
REq(a, b) == a[1] * b[2] = b[1] * a[2]

\* v, in hundredths, is a value random_solution can draw for coordinate l.
InDeclaredRange(st, l, v) ==
    LET r == Ranges(st)[l]
        unit == 100 \div r[3]
    IN  v % unit = 0 /\ r[1] * unit <= v /\ v <= r[2] * unit

\* C1: the RunResult of a run that reached the generation cap is a candidate
\* of the generation whose discrepancies picked it, together with that
\* candidate's own criterion vector: the recorded complication is the oracle's
\* evaluation of the recorded treatment, and the treatment is a member of the
\* evaluated population.
C1_ExhaustedResultIsEvaluatedBest ==
    \A k \in 1 .. Len(run_log) :
        run_log[k].how = "EXHAUSTED" =>
            /\ run_log[k].complication = CriterionOf(stage, x_list, run_log[k].treatment)
            /\ \E i \in 1 .. Len(run_log[k].population) :
                  run_log[k].population[i] = run_log[k].treatment

\* C2: every criterion vector of the oracle, observed (criterion_list) and
\* ideal (the c_list inside calculate_perfect_value), has 9 entries in {1, 2}.
C2_CriterionEntriesOneOrTwo ==
    /\ \A i \in 1 .. Len(criterion_list) :
          /\ Len(criterion_list[i]) = 9
          /\ \A k \in 1 .. 9 : criterion_list[i][k] \in {1, 2}
    /\ PerfectValueComputed =>
          /\ Len(PerfectCriterion(stage, x_list)) = 9
          /\ \A k \in 1 .. 9 : PerfectCriterion(stage, x_list)[k] \in {1, 2}

\* C3: perfect_value is at least the score calculate_saati gives to any
\* criterion vector in {1,2}^9 under the same weights, and no evaluated
\* candidate scores strictly higher than perfect_value.
C3_PerfectValueIsMaximum ==
    /\ (pc = "run" /\ run = 0) =>
          \A c \in [1 .. 9 -> {1, 2}] : ~RLess(perfect_value, SaatiValue(coeff_list, c))
    /\ \A i \in 1 .. Len(saati_list) : ~RLess(perfect_value, saati_list[i])

\* C4: every coordinate of every solution of the population lies within the
\* declared range of its position for the stage, after initialization and
\* after any crossover and mutation steps.
C4_CoordinatesInRange ==
    \A i \in 1 .. Len(sol_list) :
        \A l \in 1 .. Len(sol_list[i]) : InDeclaredRange(stage, l, sol_list[i][l])

\* C4 witness: a population right after a mutation, in a run of an invocation
\* that has already crossed over.
C4_Witness ==
    /\ pc = "eval"
    /\ generation > 0
    /\ Stagnating(mean_list)
    /\ temp_sol_list # <<>>
    /\ sol_list # evaluated_list

\* C5: the population holds exactly 32 solutions of exactly 9 coordinates in
\* every state of a run.
C5_PopulationShape ==
    /\ pc \in {"eval", "select"} => Len(sol_list) = 32
    /\ sol_list # <<>> => Len(sol_list) = 32
    /\ \A i \in 1 .. Len(sol_list) : Len(sol_list[i]) = 9

\* C5 witness: a population under evaluation that came out of a crossover
\* after an earlier mutation in the same run.
C5_Witness ==
    /\ pc = "select"
    /\ Len(mean_list) > 3
    /\ \E n \in 3 .. (Len(mean_list) - 1) : mean_list[n - 1] = mean_list[n]
    /\ ~Stagnating(mean_list)
    /\ sol_list = evaluated_list
    /\ Len(sol_list) = 32

\* C6: an invocation that returns has executed 20 runs, each contributing one
\* RunResult in run order; the printed treatments are those of runs 1..5 in
\* that order and the printed complications are the criterion vector recorded
\* by run 1.
C6_TwentyRunsFirstFive ==
    /\ Len(treatment_list) = Len(run_log)
    /\ Len(complication_list) = Len(run_log)
    /\ \A k \in 1 .. Len(run_log) :
          /\ run_log[k].run = k - 1
          /\ treatment_list[k] = run_log[k].treatment
          /\ complication_list[k] = run_log[k].complication
    /\ stdout # <<>> => pc = "done"
    /\ pc = "done" =>
          /\ Len(run_log) = 20
          /\ Len(stdout) = 1
          /\ stdout[1].treatments = [k \in 1 .. 5 |-> run_log[k].treatment]
          /\ stdout[1].complications = run_log[1].complication

\* C6 witness: a returned invocation in which a later run recorded another
\* criterion vector and a later run another treatment than the first five.
C6_Witness ==
    /\ pc = "done"
    /\ Len(run_log) = 20
    /\ \E k \in 2 .. 20 : run_log[k].complication # run_log[1].complication
    /\ \E k \in 6 .. 20 : \A j \in 1 .. 5 : run_log[k].treatment # run_log[j].treatment

\* C7: a run evaluates at most 500 generations and ends in exactly one of
\* CONVERGED, DOMINATED and EXHAUSTED: every run that has ended has exactly one
\* RunResult, an EXHAUSTED one only after 500 evaluated generations.
C7_RunTermination ==
    /\ evaluations <= 500
    /\ generation <= 500
    /\ Len(run_log) = run
    /\ \A k \in 1 .. Len(run_log) :
          /\ run_log[k].how \in {"CONVERGED", "DOMINATED", "EXHAUSTED"}
          /\ run_log[k].evaluated \in 1 .. 500
          /\ run_log[k].how = "EXHAUSTED" => run_log[k].evaluated = 500
          /\ \A j \in 1 .. Len(run_log) : run_log[j].run = run_log[k].run => j = k

\* C7 witness: a run has ended EXHAUSTED after its 500 generations and the
\* next run is under way.
C7_Witness ==
    /\ run_log # <<>>
    /\ run_log[Len(run_log)].how = "EXHAUSTED"
    /\ run_log[Len(run_log)].evaluated = 500
    /\ pc = "select"

\* C8: an input that is malformed, lacks xList or has an xList of a length
\* other than 12 (stage 1) or 9 (stage 2) never starts calculate_treatment and
\* ends with the error object on stderr and a non-zero exit status.
C8_InvalidInputRejected ==
    LET invalid ==
            \/ input.arg \in {"malformed", "no_xList"}
            \/ input.arg = "object" /\ Len(input.xList) # (IF stage = 1 THEN 12 ELSE 9)
    IN  invalid =>
          /\ pc \in {"main", "raise", "failed"}
          /\ x_list = <<>> /\ coeff_list = <<>> /\ sol_list = <<>>
          /\ run = 0 /\ evaluations = 0 /\ run_log = <<>>
          /\ stdout = <<>>
          /\ pc = "raise" => ENABLED Except
          /\ pc = "failed" =>
                /\ stderr = <<[error |-> exc]>>
                /\ exc \in {"JSONDecodeError", "KeyError", "ValueError"}
                /\ exit_status = 1

\* C8 witness: a stage-1 invocation with an xList of length 11 has failed.
C8_Witness ==
    /\ pc = "failed"
    /\ stage = 1
    /\ input.arg = "object"
    /\ Len(input.xList) = 11
    /\ exc = "ValueError"

\* C9: a failure raised during a run ends the invocation with the error
\* object on stderr and a non-zero exit status; nothing is printed on stdout,
\* no run is started or continued afterwards, and the results of the runs
\* completed before the failure are not output.
C9_FailureEndsInvocation ==
    /\ [](exc # "none" =>
            /\ pc \in {"raise", "failed"}
            /\ stdout = <<>>
            /\ exit_status # 0
            /\ pc = "raise" => ENABLED Except
            /\ pc = "failed" => stderr = <<[error |-> exc]>> /\ exit_status = 1)
    /\ [][exc # "none" =>
            /\ pc = "raise" /\ pc' = "failed"
            /\ UNCHANGED <<exc, run, generation, evaluations, sol_list, treatment_list,
                           complication_list, run_log, rng, stdout>>]_vars

\* C9 witness: the probability computation failed in a later run, after a
\* run had recorded its result, and the invocation has ended.
C9_Witness ==
    /\ pc = "failed"
    /\ exc = "ZeroDivisionError"
    /\ treatment_list # <<>>
    /\ sol_list # <<>>
    /\ stdout = <<>>

\* C10: the weight vector has 9 positive entries, strictly decreasing by
\* index, that sum to 1, entry i being entry 1 divided by i.
C10_WeightVector ==
    coeff_list # <<>> =>
        /\ Len(coeff_list) = 9
        /\ \A i \in 1 .. 9 : coeff_list[i][1] > 0 /\ coeff_list[i][2] > 0
        /\ \A i \in 1 .. 8 : RLess(coeff_list[i + 1], coeff_list[i])
        /\ REq(RSum(coeff_list), RInt(1))
        /\ \A i \in 1 .. 9 : REq(RMul(coeff_list[i], RInt(i)), coeff_list[1])

\* C10 witness: calculate_treatment has computed its weights and the first
\* run is about to start.
C10_Witness ==
    /\ pc = "run"
    /\ run = 0
    /\ coeff_list = saati_method

\* The states in which calculate_treatment goes on to get_probabilities: the
\* generation is evaluated, no slot is optimal and the stagnation test fails.
ProbabilitiesComputed ==
    /\ pc = "select"
    /\ Optimal = {}
    /\ ~Stagnating(Append(mean_list, mean_disc))

\* C11: in every generation in which selection probabilities are computed,
\* every candidate's discrepancy is strictly positive, and so is the inverse
\* that becomes its selection probability.
C11_DiscrepanciesPositive ==
    ProbabilitiesComputed =>
        \A i \in 1 .. POPULATION_NUMBER :
            /\ disc_list[i][1] > 0
            /\ RInv(disc_list[i])[1] > 0

C13_ConvergedRun ==
    [][(/\ pc = "select"
        /\ \E i \in 1 .. POPULATION_NUMBER : saati_list[i] = perfect_value)
       => /\ pc' = "run"
          /\ run' = run + 1
          /\ run_log' = Append(run_log, run_log'[Len(run_log) + 1])
          /\ LET r == run_log'[Len(run_log) + 1]
             IN  /\ r.how = "CONVERGED"
                 /\ r.run = run
                 /\ \E i \in 1 .. POPULATION_NUMBER :
                       /\ saati_list[i] = perfect_value
                       /\ r.treatment = sol_list[i]
                       /\ r.complication = criterion_list[i]
                 /\ r.complication = CriterionOf(stage, x_list, r.treatment)
                 /\ SaatiValue(coeff_list, r.complication) = perfect_value
                 /\ treatment_list' = Append(treatment_list, r.treatment)
                 /\ complication_list' = Append(complication_list, r.complication)
          /\ UNCHANGED <<sol_list, mean_list, father_list, mother_list, temp_sol_list, rng>>
      ]_vars

\* C13 witness: a run has just ended CONVERGED in a generation after its
\* first, on a slot other than slot 0.
C13_Witness ==
    /\ pc = "run"
    /\ run_log # <<>>
    /\ run_log[Len(run_log)].how = "CONVERGED"
    /\ run_log[Len(run_log)].evaluated > 1
    /\ saati_list[1] # perfect_value
    /\ \E i \in 2 .. POPULATION_NUMBER :
          /\ saati_list[i] = perfect_value
          /\ run_log[Len(run_log)].treatment = sol_list[i]

\* The steps in which the fathers of a generation are drawn: a mean is
\* recorded, the stagnation test fails and get_probabilities returns.
FathersDrawn ==
    /\ pc = "select"
    /\ mean_list' # mean_list
    /\ ~Stagnating(mean_list')
    /\ pc' # "raise"

\* C14: when the 32 father draws of a generation are one index, the run ends
\* in that generation as DOMINATED: the step records the slot at that index of
\* the population as it was evaluated, with that slot's criterion vector of the
\* same generation, starts the next run, selects no mothers and performs no
\* crossover (mother list, snapshot and population are unchanged).
C14_DominatedRun ==
    [][(/\ FathersDrawn
        /\ \A i \in 1 .. POPULATION_NUMBER : father_list'[i] = father_list'[1])
       => /\ pc' = "run"
          /\ run' = run + 1
          /\ run_log' = Append(run_log, run_log'[Len(run_log) + 1])
          /\ LET r == run_log'[Len(run_log) + 1]
                 f == father_list'[1] + 1
             IN  /\ r.how = "DOMINATED"
                 /\ r.run = run
                 /\ r.treatment = sol_list[f]
                 /\ r.treatment = evaluated_list[f]
                 /\ r.complication = criterion_list[f]
                 /\ r.complication = CriterionOf(stage, x_list, r.treatment)
                 /\ treatment_list' = Append(treatment_list, r.treatment)
                 /\ complication_list' = Append(complication_list, r.complication)
          /\ UNCHANGED <<sol_list, mother_list, temp_sol_list>>
      ]_vars

\* C14 witness: a run has just ended DOMINATED, after an earlier generation
\* with a crossover, on a father index other than 0.
C14_Witness ==
    /\ pc = "run"
    /\ run_log # <<>>
    /\ run_log[Len(run_log)].how = "DOMINATED"
    /\ run_log[Len(run_log)].evaluated > 1
    /\ father_list[1] # 0
    /\ \A i \in 1 .. POPULATION_NUMBER : father_list[i] = father_list[1]
    /\ run_log[Len(run_log)].treatment = sol_list[father_list[1] + 1]

\* A population whose every coordinate is a coordinate of the same position in
\* some slot of sol: what selection and crossover leave, and what a redraw of
\* the slots does not.
Inherited(new, sol) ==
    \A i \in 1 .. POPULATION_NUMBER : \A l \in 1 .. SOLUTION_SIZE :
        \E j \in 1 .. POPULATION_NUMBER : new[i][l] = sol[j][l]

\* C15: in a generation without a slot scoring perfect_value the mean is
\* recorded, and the population is mutated if and only if at least three means
\* are then recorded in the run and the last two are equal; a mutating
\* generation draws no fathers or mothers, takes no snapshot, performs no
\* crossover and ends no run; every other such generation does not mutate.
C15_MutationIffStagnation ==
    [][(/\ pc = "select"
        /\ \A i \in 1 .. POPULATION_NUMBER : saati_list[i] # perfect_value)
       => LET means == Append(mean_list, mean_disc)
              n == Len(mean_list) + 1
          IN  /\ mean_list' = means
              /\ IF n >= 3 /\ means[n - 1] = means[n]
                 THEN /\ sol_list' = mutation(stage, rng, sol_list)
                      /\ pc' = "eval"
                      /\ generation' = generation + 1
                      /\ UNCHANGED <<father_list, mother_list, temp_sol_list, run,
                                     run_log, treatment_list, complication_list>>
                 ELSE /\ Inherited(sol_list', sol_list)
                      /\ rng' # RngSkip(rng, (POPULATION_NUMBER - 1) * SOLUTION_SIZE)
      ]_vars

\* C15 witness: a generation has just been mutated, and slots of the
\* population are new.
C15_Witness ==
    /\ pc = "eval"
    /\ Len(mean_list) >= 3
    /\ mean_list[Len(mean_list) - 1] = mean_list[Len(mean_list)]
    /\ sol_list[1] = evaluated_list[1]
    /\ ~Inherited(sol_list, evaluated_list)

\* The mean of the generation under selection equals the mean recorded for
\* the generation before it.
MeanRepeats ==
    /\ pc = "select"
    /\ Optimal = {}
    /\ mean_list # <<>>
    /\ mean_disc = mean_list[Len(mean_list)]

\* What a mutating generation does: slot 0 is kept, the other slots are
\* redrawn, no parent list and no snapshot is written.
RespondsWithMutation ==
    /\ sol_list' = mutation(stage, rng, sol_list)
    /\ UNCHANGED <<father_list, mother_list, temp_sol_list>>
    /\ pc' = "eval"

\* C16: whenever the mean discrepancy of a run is equal in two consecutive
\* generations, the second of them being the third or a later generation of
\* the run, the run responds with mutation and not with crossover.
C16_RepeatedMeanMutates ==
    [][(MeanRepeats /\ Len(mean_list) >= 2) => RespondsWithMutation]_vars

\* C16 as stated: the same for every pair of consecutive generations, the
\* first and the second generation of a run included.
C16_RepeatedMeanMutatesFromFirst ==
    [][MeanRepeats => RespondsWithMutation]_vars

\* C16 witness: a mutation has answered a mean that was recorded twice in a
\* row after a different one, later than the third generation of the run.
C16_Witness ==
    /\ pc = "eval"
    /\ Len(mean_list) > 3
    /\ mean_list[Len(mean_list) - 2] # mean_list[Len(mean_list) - 1]
    /\ mean_list[Len(mean_list) - 1] = mean_list[Len(mean_list)]
    /\ sol_list # evaluated_list
    /\ sol_list[1] = evaluated_list[1]

\* The steps that select mothers, take the snapshot and cross over.
CrossoverStep == FathersDrawn /\ pc' = "eval"

\* The states a crossover step leads to.
AfterCrossover ==
    /\ pc = "eval"
    /\ mean_list # <<>>
    /\ ~Stagnating(mean_list)

\* C17: crossover split law.  For every slot i in 0..31 the child written to
\* slot i has the first (i mod 8) + 1 coordinates of its first parent and the
\* remaining coordinates of its other parent, both as they were before the
\* crossover; the first parent is the father when (i mod 16) < 8 and the mother
\* otherwise.
C17_CrossoverSplit ==
    [][CrossoverStep =>
          \A i \in 0 .. POPULATION_NUMBER - 1 :
              LET head == (i % 8) + 1
                  father == sol_list[father_list'[i + 1] + 1]
                  mother == sol_list[mother_list'[i + 1] + 1]
                  first == IF (i % 16) < 8 THEN father ELSE mother
                  other == IF (i % 16) < 8 THEN mother ELSE father
                  child == sol_list'[i + 1]
              IN  /\ Len(child) = SOLUTION_SIZE
                  /\ \A m \in 1 .. head : child[m] = first[m]
                  /\ \A m \in head + 1 .. SOLUTION_SIZE : child[m] = other[m]
      ]_vars

\* C17 witness: a crossover has produced, in the mother-first half of a block
\* of 16 slots, a child that is neither of its parents.
C17_Witness ==
    /\ AfterCrossover
    /\ \E n \in 1 .. POPULATION_NUMBER :
          /\ (n - 1) % 16 >= 8
          /\ sol_list[n] # temp_sol_list[father_list[n] + 1]
          /\ sol_list[n] # temp_sol_list[mother_list[n] + 1]

\* The slot (1-based) that coordinate m of the child at slot n is read from.
ParentSlot(n, m) ==
    LET i == n - 1
        fromFather == ((i % 16) < 8) = (m - 1 < (i % 8) + 1)
    IN  (IF fromFather THEN father_list[n] ELSE mother_list[n]) + 1

\* C18: every child of a crossover is a function of the population as it was
\* before the crossover: each coordinate written to slot i is the coordinate
\* its parent had in the evaluated population, also when the parent's slot is
\* below i and has been overwritten by then; the snapshot is that population,
\* unmodified.
C18_ChildrenFromSnapshot ==
    AfterCrossover =>
        /\ temp_sol_list = evaluated_list
        /\ \A n \in 1 .. POPULATION_NUMBER : \A m \in 1 .. SOLUTION_SIZE :
               sol_list[n][m] = evaluated_list[ParentSlot(n, m)][m]

\* C18 witness: after a crossover a child holds a coordinate of a parent at a
\* lower slot, which that slot no longer holds.
C18_Witness ==
    /\ AfterCrossover
    /\ \E n \in 2 .. POPULATION_NUMBER : \E m \in 1 .. SOLUTION_SIZE :
          /\ ParentSlot(n, m) < n
          /\ sol_list[ParentSlot(n, m)][m] # temp_sol_list[ParentSlot(n, m)][m]
          /\ sol_list[n][m] = temp_sol_list[ParentSlot(n, m)][m]

\* The steps that mutate the population.
MutationStep ==
    /\ pc = "select"
    /\ pc' = "eval"
    /\ Stagnating(mean_list')

\* C19: a mutation leaves slot 0 of the population as it was, replaces each
\* of the slots 1..31 by a vector drawn from the generator at that moment
\* (nine draws a slot, each coordinate in its declared range) and leaves the
\* population size unchanged.
C19_MutationKeepsSlotZero ==
    [][MutationStep =>
          /\ Len(sol_list') = Len(sol_list)
          /\ Len(sol_list') = POPULATION_NUMBER
          /\ sol_list'[1] = sol_list[1]
          /\ \A i \in 2 .. POPULATION_NUMBER :
                /\ sol_list'[i] = random_solution(stage, RngSkip(rng, (i - 2) * SOLUTION_SIZE))
                /\ \A l \in 1 .. SOLUTION_SIZE : InDeclaredRange(stage, l, sol_list'[i][l])
          /\ rng' = RngSkip(rng, (POPULATION_NUMBER - 1) * SOLUTION_SIZE)
      ]_vars

\* C19 witness: a mutation has kept slot 0 and changed every other slot.
C19_Witness ==
    /\ pc = "eval"
    /\ Stagnating(mean_list)
    /\ Len(sol_list) = POPULATION_NUMBER
    /\ sol_list[1] = evaluated_list[1]
    /\ \A i \in 2 .. POPULATION_NUMBER : sol_list[i] # evaluated_list[i]

\* C20: in every generation that crosses over, the mother index of every
\* slot differs from its father index, both being population slots: every
\* mating pair is two distinct slots.
C20_MotherIsNotFather ==
    [][CrossoverStep =>
          /\ Len(father_list') = POPULATION_NUMBER
          /\ Len(mother_list') = POPULATION_NUMBER
          /\ \A i \in 1 .. POPULATION_NUMBER :
                /\ father_list'[i] \in 0 .. POPULATION_NUMBER - 1
                /\ mother_list'[i] \in 0 .. POPULATION_NUMBER - 1
                /\ mother_list'[i] # father_list'[i]
      ]_vars

\* C20 witness: after a crossover every pair is two distinct slots, and the
\* slot that is the mother of one pair is the father of another.
C20_Witness ==
    /\ AfterCrossover
    /\ \A i \in 1 .. POPULATION_NUMBER : mother_list[i] # father_list[i]
    /\ \E i \in 1 .. POPULATION_NUMBER : \E j \in 1 .. POPULATION_NUMBER :
          mother_list[i] = father_list[j]

\* ------------------------------------------- mother selection, draw by draw

MaxFatherSeeds == 7

\* Generator states the fathers are drawn from: the counting generator started
\* in the middle of a slot's range of values (two slots are drawn) or at its
\* beginning (one slot is drawn 32 times).
FatherTapes == {[a |-> 1, c |-> 17, x |-> 512 * k] : k \in 0 .. MaxFatherSeeds}

\* A condition that never counts the fathers: get_mothers is always reached.
HasTwoFathers_always(fathers) == Cardinality({fathers[i] : i \in 1 .. Len(fathers)}) >= 0

\* not (len(set(father_list)) <= 1)
HasTwoFathers(fathers) == Cardinality({fathers[i] : i \in 1 .. Len(fathers)}) > 1

\* The slots a draw of choices(POPULATION_RANGE, prob_list) is known to
\* return with the prob_list of this generation: the ones it has returned as
\* fathers.  Which of them a draw returns is left open.
Drawable == {father_list[i] : i \in 1 .. Len(father_list)}

\* The state at the else branch of a generation, before the fathers are drawn.
MotherInit ==
    /\ stage = 1
    /\ input = [arg |-> "object", xList |-> <<100, 30, 5, 30, 100, 3, 10, 100, 30, 100, 3, 10>>]
    /\ rng \in FatherTapes
    /\ pc = "fathers"
    /\ x_list = input.xList
    /\ coeff_list = saati_method
    /\ perfect_value = calculate_perfect_value(stage, x_list, saati_method)
    /\ run = 0
    /\ generation = 0
    /\ sol_list = generate_first_population(stage, rng)
    /\ mean_list = <<>>
    /\ criterion_list = <<>>
    /\ saati_list = <<>>
    /\ father_list = <<>>
    /\ mother_list = <<>>
    /\ temp_sol_list = <<>>
    /\ treatment_list = <<>>
    /\ complication_list = <<>>
    /\ stdout = <<>>
    /\ stderr = <<>>
    /\ exit_status = -1
    /\ exc = "none"
    /\ evaluated_list = <<>>
    /\ evaluations = 0
    /\ run_log = <<>>

mother_frame == <<stage, input, x_list, coeff_list, perfect_value, run, generation, sol_list,
                  mean_list, criterion_list, saati_list, temp_sol_list, treatment_list,
                  complication_list, stdout, stderr, exit_status, exc, evaluated_list,
                  evaluations, run_log>>

\* father_list = choices(POPULATION_RANGE, prob_list, k=POPULATION_NUMBER)
DrawFathers ==
    /\ pc = "fathers"
    /\ father_list' = choices(rng, <<>>)
    /\ rng' = RngSkip(rng, POPULATION_NUMBER)
    /\ pc' = "fathers_drawn"
    /\ UNCHANGED <<mother_list, mother_frame>>

\* len(set(father_list)) <= 1: the run is left, get_mothers is not called.
FathersSame ==
    /\ pc = "fathers_drawn"
    /\ ~HasTwoFathers(father_list)
    /\ pc' = "run"
    /\ UNCHANGED <<rng, father_list, mother_list, mother_frame>>

\* Otherwise get_mothers is called: mother_list = [].
FathersDiffer ==
    /\ pc = "fathers_drawn"
    /\ HasTwoFathers(father_list)
    /\ mother_list' = <<>>
    /\ pc' = "mothers"
    /\ UNCHANGED <<rng, father_list, mother_frame>>

\* A draw of get_mothers for slot i = len(mother_list) that returns the
\* father of the slot: the while loop is entered, or gone round once more.
MotherRedraw ==
    /\ pc \in {"mothers", "redraw"}
    /\ Len(mother_list) < POPULATION_NUMBER
    /\ father_list[Len(mother_list) + 1] \in Drawable
    /\ pc' = "redraw"
    /\ UNCHANGED <<rng, father_list, mother_list, mother_frame>>

\* A draw that returns another slot: the loop is left and the slot appended;
\* after the last slot get_mothers returns and the crossover follows.
MotherAccept ==
    /\ pc \in {"mothers", "redraw"}
    /\ Len(mother_list) < POPULATION_NUMBER
    /\ \E m \in Drawable \ {father_list[Len(mother_list) + 1]} :
          mother_list' = Append(mother_list, m)
    /\ pc' = IF Len(mother_list') = POPULATION_NUMBER THEN "crossover" ELSE "mothers"
    /\ UNCHANGED <<rng, father_list, mother_frame>>

MotherNext ==
    \/ DrawFathers
    \/ FathersSame
    \/ FathersDiffer
    \/ MotherRedraw
    \/ MotherAccept

\* The statements of calculate_treatment are executed one after the other;
\* a draw whose outcome stays possible is not withheld for ever.
MotherSpec ==
    /\ MotherInit
    /\ [][MotherNext]_vars
    /\ WF_vars(DrawFathers)
    /\ WF_vars(FathersSame \/ FathersDiffer)
    /\ SF_vars(MotherAccept)

\* C21: whenever get_mothers is reached, the resampling loop of every slot
\* eventually draws a slot other than the father, so that mother selection
\* ends with 32 mothers, each different from its father, and the generation
\* goes on to the crossover.
C21_MotherSelectionTerminates ==
    (pc = "mothers") ~>
        (/\ pc = "crossover"
         /\ Len(mother_list) = POPULATION_NUMBER
         /\ \A i \in 1 .. POPULATION_NUMBER : mother_list[i] # father_list[i])

\* C21 witness: get_mothers was reached with two distinct fathers and has
\* returned its 32 mothers, each a slot other than the father.
C21_Witness ==
    /\ pc = "crossover"
    /\ HasTwoFathers(father_list)
    /\ Len(mother_list) = POPULATION_NUMBER
    /\ \A i \in 1 .. POPULATION_NUMBER : mother_list[i] # father_list[i]

\* C22: runs are isolated.  coeff_list and perfect_value are computed once,
\* before the first run, and no later step changes them; the step that starts
\* a run installs a population drawn anew from the generator and an empty
\* mean_list; and a result once recorded stays as it was recorded whatever the
\* later runs cross over or mutate.
C22_RunsIsolated ==
    [][/\ (pc \notin {"main", "setup"})
          => /\ coeff_list' = coeff_list
             /\ perfect_value' = perfect_value
             /\ Len(treatment_list') >= Len(treatment_list)
             /\ Len(complication_list') >= Len(complication_list)
             /\ \A k \in 1 .. Len(treatment_list) :
                   /\ treatment_list'[k] = treatment_list[k]
                   /\ treatment_list'[k] = run_log[k].treatment
             /\ \A k \in 1 .. Len(complication_list) :
                   /\ complication_list'[k] = complication_list[k]
                   /\ complication_list'[k] = run_log[k].complication
       /\ (pc = "run" /\ pc' = "eval")
          => /\ sol_list' = generate_first_population(stage, rng)
             /\ mean_list' = <<>>
             /\ generation' = 0
             /\ coeff_list' = saati_method
             /\ perfect_value' = calculate_perfect_value(stage, x_list, saati_method)
      ]_vars

\* C22 witness: a run after the first has started, with a population other
\* than the one the run before ended on and an empty mean_list, after a run
\* that crossed over and left means behind; the results recorded so far are
\* those of the history.
C22_Witness ==
    /\ pc = "eval"
    /\ run > 0
    /\ generation = 0
    /\ evaluations = 0
    /\ mean_list = <<>>
    /\ run_log[run].evaluated > 1
    /\ sol_list # evaluated_list
    /\ Len(treatment_list) = run
    /\ \A k \in 1 .. run : treatment_list[k] = run_log[k].treatment

\* The generation step of calculate_treatment as a function of what the two
\* stages share: the scores, perfect_value, the means recorded in the run and
\* the generator.  The stage, the condition and the coordinate ranges are no
\* argument of it.  slot is the 0-based slot that is recorded, or -1.
DriverStep(saati, perfect, means, g) ==
    LET hits == {i \in 1 .. POPULATION_NUMBER : saati[i] = perfect}
        disc == [i \in 1 .. POPULATION_NUMBER |-> RSub(perfect, saati[i])]
        means2 == Append(means, RDiv(RSum(disc), RInt(POPULATION_NUMBER)))
        n == Len(means) + 1
        fathers == [i \in 1 .. POPULATION_NUMBER |-> choice(RngSkip(g, i), <<>>)]
    IN  IF hits # {} THEN [kind |-> "CONVERGED", slot |-> Min(hits) - 1]
        ELSE IF n > 2 /\ means2[n - 1] = means2[n] THEN [kind |-> "MUTATION", slot |-> -1]
        ELSE IF get_probabilities_raises(disc) THEN [kind |-> "RAISED", slot |-> -1]
        ELSE IF \A i \in 1 .. POPULATION_NUMBER : fathers[i] = fathers[1]
             THEN [kind |-> "DOMINATED", slot |-> fathers[1]]
        ELSE [kind |-> "CROSSOVER", slot |-> -1]

\* The step records slot s (0-based) of the evaluated generation as the
\* result of the run, ended in the way how, and leaves the run.
RecordsSlot(s, how) ==
    /\ pc' = "run"
    /\ run' = run + 1
    /\ run_log' = Append(run_log, run_log'[Len(run_log) + 1])
    /\ run_log'[Len(run_log) + 1].how = how
    /\ run_log'[Len(run_log) + 1].treatment = sol_list[s + 1]
    /\ run_log'[Len(run_log) + 1].complication = criterion_list[s + 1]

\* C23: the drivers of the two stages are one state machine.  In either
\* stage the transition taken after an evaluation (converge, mutate, raise,
\* dominate, cross over) and the slot recorded are those DriverStep gives for
\* the scores, perfect_value, the recorded means and the generator, and a run
\* at the generation limit is exhausted on the best slot of its last
\* discrepancies; the stage enters only through the oracle behind the scores
\* and the ranges of the redrawn coordinates.
C23_StagesShareDriver ==
    [][/\ pc = "select"
          => LET t == DriverStep(saati_list, perfect_value, mean_list, rng)
             IN  /\ t.kind \in {"CONVERGED", "DOMINATED"} => RecordsSlot(t.slot, t.kind)
                 /\ t.kind = "MUTATION"
                       => /\ pc' = "eval"
                          /\ run_log' = run_log
                          /\ sol_list'[1] = sol_list[1]
                          /\ UNCHANGED <<father_list, mother_list, temp_sol_list>>
                 /\ t.kind = "RAISED" => pc' = "raise" /\ run_log' = run_log
                 /\ t.kind = "CROSSOVER"
                       => /\ pc' = "eval"
                          /\ run_log' = run_log
                          /\ temp_sol_list' = sol_list
                          /\ \A n \in 1 .. POPULATION_NUMBER : \A m \in 1 .. SOLUTION_SIZE :
                                LET i == n - 1
                                    fromFather == ((i % 16) < 8) = (m - 1 < (i % 8) + 1)
                                    parent == IF fromFather THEN father_list'[n]
                                              ELSE mother_list'[n]
                                IN  sol_list'[n][m] = sol_list[parent + 1][m]
       /\ (pc = "eval" /\ generation = MAX_GENERATIONS)
          => RecordsSlot(best_idx([i \in 1 .. POPULATION_NUMBER |->
                                      RSub(perfect_value, saati_list[i])]), "EXHAUSTED")
      ]_vars

\* C23 witness: the conservative stage has ended a run DOMINATED on a slot
\* other than 0 after a generation with a crossover, as DriverStep gives it.
C23_Witness ==
    /\ stage = 2
    /\ pc = "run"
    /\ run_log # <<>>
    /\ run_log[Len(run_log)].how = "DOMINATED"
    /\ run_log[Len(run_log)].evaluated > 1
    /\ father_list[1] # 0
    /\ temp_sol_list # <<>>
    /\ run_log[Len(run_log)].treatment = sol_list[father_list[1] + 1]
    /\ run_log[Len(run_log)].treatment # sol_list[1]

\* C24: treatment_list and complication_list always have the same length,
\* the number of runs that have ended, and entry r of both is the result
\* recorded by run r; so on a successful return both hold 20 entries, the
\* returned treatments are exactly 5 vectors and the returned complications
\* are the criterion vector of the first run, never the empty list.
C24_ResultListsPaired ==
    /\ Len(treatment_list) = Len(complication_list)
    /\ Len(treatment_list) = run
    /\ run \in 0 .. GA_RUNS
    /\ \A r \in 1 .. Len(treatment_list) :
          /\ run_log[r].run = r - 1
          /\ run_log[r].treatment = treatment_list[r]
          /\ run_log[r].complication = complication_list[r]
          /\ Len(treatment_list[r]) = SOLUTION_SIZE
          /\ Len(complication_list[r]) = SOLUTION_SIZE
    /\ pc = "done" =>
          /\ Len(treatment_list) = GA_RUNS
          /\ Len(complication_list) = GA_RUNS
          /\ Len(stdout[1].treatments) = 5
          /\ complication_list # <<>>
          /\ stdout[1].complications # <<>>
          /\ Len(stdout[1].complications) = SOLUTION_SIZE

\* C24 witness: an invocation has returned after 20 runs that did not all
\* end in the same way, with 5 treatments and the first run's complications.
C24_Witness ==
    /\ pc = "done"
    /\ Len(treatment_list) = GA_RUNS
    /\ Len(complication_list) = GA_RUNS
    /\ \E r \in 1 .. GA_RUNS : run_log[r].how = "CONVERGED"
    /\ \E r \in 1 .. GA_RUNS : run_log[r].how = "DOMINATED"
    /\ Len(stdout[1].treatments) = 5
    /\ stdout[1].complications = complication_list[1]

\* The slots (1-based) of the first and of the other parent of the child at
\* slot n (1-based): j if (i % 16) < 8 else k, and the reverse.
FirstParent(n) ==
    (IF ((n - 1) % 16) < 8 THEN father_list[n] ELSE mother_list[n]) + 1

OtherParent(n) ==
    (IF ((n - 1) % 16) < 8 THEN mother_list[n] ELSE father_list[n]) + 1

\* C25: every child of a crossover has at least one coordinate of each of its
\* two parents: the split (i mod 8) + 1 is in 1..8, so the first coordinate is
\* always the first parent's and the last coordinate always the other
\* parent's, and no child is one parent slot copied whole.
C25_ChildHasBothParents ==
    AfterCrossover =>
        \A n \in 1 .. POPULATION_NUMBER :
            /\ ((n - 1) % 8) + 1 \in 1 .. SOLUTION_SIZE - 1
            /\ sol_list[n][1] = temp_sol_list[FirstParent(n)][1]
            /\ sol_list[n][SOLUTION_SIZE] = temp_sol_list[OtherParent(n)][SOLUTION_SIZE]
            /\ FirstParent(n) # OtherParent(n)

\* C25 witness: after a crossover a child with the longest head, 8
\* coordinates, has the last coordinate of its other parent where its first
\* parent has another value, and a child with the shortest head, 1, has the
\* first coordinate of its first parent where the other parent has another.
C25_Witness ==
    /\ AfterCrossover
    /\ \E n \in 1 .. POPULATION_NUMBER :
          /\ (n - 1) % 8 = 7
          /\ temp_sol_list[FirstParent(n)][SOLUTION_SIZE]
                # temp_sol_list[OtherParent(n)][SOLUTION_SIZE]
          /\ sol_list[n][SOLUTION_SIZE] = temp_sol_list[OtherParent(n)][SOLUTION_SIZE]
    /\ \E n \in 1 .. POPULATION_NUMBER :
          /\ (n - 1) % 8 = 0
          /\ temp_sol_list[FirstParent(n)][1] # temp_sol_list[OtherParent(n)][1]
          /\ sol_list[n][1] = temp_sol_list[FirstParent(n)][1]

====
